---- MODULE Spec2Model ----
(***************************************************************************)
(* File-based request/response queue of the Qwen Code voice bot.           *)
(*                                                                         *)
(*   consumer : src/queue_processor.py  (monitor_queue, process_request,   *)
(*              process_with_qwen_cli, process_with_qwen_api,              *)
(*              generate_mock_response, signal_handler)                    *)
(*   producer : src/test_full_pipeline.py (test_queue_to_qwen): writes a   *)
(*              request file, polls for the response file, reads it and    *)
(*              cleans both files up.                                      *)
(*                                                                         *)
(* The two directories are functions from file stems (ids) to file         *)
(* contents.  A file written with open(..., "w") + json.dump is created    *)
(* empty first and holds the full record only after the dump, so a file    *)
(* has the intermediate content Partial between the two steps.             *)
(*                                                                         *)
(* Booking bot (src/booking_bot/bot.py, database.py, config.py): one       *)
(* asyncio process whose handlers interleave at their awaits and share an  *)
(* sqlite table of appointments, an in-memory conversation state per user  *)
(* and one background reminder task (send_reminders).                      *)
(***************************************************************************)
EXTENDS Integers, Sequences, FiniteSets, TLC

\* ---------------------------------------------------------------- bounds
NBad == 1           \* foreign files already lying in the request directory at start
MaxWait == 2        \* max_wait of the producer, scaled down from 60
MaxHistory == 6     \* longest history of a request file in WithHistory
MaxAppointments == 2 \* rows the appointments table can hold
MaxEndHour == 10    \* WORK_HOURS["end"], cut down from 20

\* One producer task (one run of test_queue_to_qwen); its request id is 1.
Producers == {1}
BadIds == 2..(1 + NBad)
\* A second run of test_queue_to_qwen at the same time as the first; uuid4
\* gives it an id of its own. It takes steps only in TwoProducers.
SecondProducer == NBad + 2
Tasks == Producers \cup {SecondProducer}
AllIds == Tasks \cup BadIds

\* ------------------------------------------------------------ file contents
Absent == [kind |-> "absent"]      \* no such file in the directory
Partial == [kind |-> "partial"]    \* opened for writing, json.dump not finished
Garbage == [kind |-> "garbage"]    \* bytes that are not JSON
JsonList == [kind |-> "json_list"] \* valid JSON whose top level is not an object
Json(d) == [kind |-> "json", data |-> d]

None == "<None>"
\* A dict-valued local that holds nothing yet
Unbound == [unbound |-> TRUE]
\* The prompt of task p: each task asks something different.
PromptOf(p) == IF p = 1 THEN "2+2" ELSE "hi"
TEST_USER_ID == 999999

\* dict.get(key, default) on a parsed JSON object
Get(d, key, default) == IF key \in DOMAIN d THEN d[key] ELSE default

\* Python truthiness of an Optional[str]
Truthy(t) == t # None /\ t # ""

\* str.strip() on the texts the model uses
Strip(s) ==
    CASE s = " \n" -> ""
      [] s = "answer\n" -> "answer"
      [] s = "partial\n" -> "partial"
      [] OTHER -> s

VARIABLES
    requests,       \* QUEUE_DIR: id -> content of <id>.json
    responses,      \* RESPONSES_DIR: id -> content of <id>.json
    ppc,            \* producer task -> position in test_queue_to_qwen
    waited,         \* producer task -> its local `waited`
    pdata,          \* producer task -> its local `response_data`
    presult,        \* producer task -> its local `response_text`
    cpc,            \* position of the consumer in monitor_queue / process_request
    request_files,  \* files of the current sweep not yet iterated over
    cur,            \* request_id of the process_request call in progress (0: none)
    request_data,   \* parsed request of the call in progress
    response_text,  \* local of process_request
    calls,          \* providers tried for the current request: what happened, what each returned
    exc,            \* str(e) of the exception caught by process_request
    running,        \* global shutdown flag
    QWEN_CODE_API_URL, \* configuration: "" when no remote endpoint is configured
    processed,      \* ids for which the log has a process_request call
    written,        \* id -> text of the last completed response the consumer logged
    answered,       \* ids for which the consumer has finished writing a response file
    second,         \* locals of a second queue_processor process (see TwoConsumers)
    context,        \* the prior turns handed to the provider by the latest call
    now,            \* booking bot: wall clock, in half hours since midnight
    appointments,   \* table appointments: row id -> row
    fsm_state,      \* user -> state of the user's FSMContext
    fsm_data,       \* user -> data of the user's FSMContext
    bpc,            \* user -> position of the user's confirm_booking handler
    last_cancel,    \* what the latest cancel_appointment handler told its user
    rpc,            \* position of the reminder task in send_reminders
    appts,          \* send_reminders: rows of `appointments` not yet iterated over
    selected,       \* row ids get_appointments_for_reminder has returned so far
    reminders,      \* row id -> reminders delivered for it (counted up to 2)
    panel,          \* users the admin panel has been shown to
    last_admin      \* the latest admin action executed, and who triggered it

botVars == <<now, appointments, fsm_state, fsm_data, bpc, last_cancel, rpc, appts,
             selected, reminders, panel, last_admin>>

queueVars == <<requests, responses, ppc, waited, pdata, presult, cpc, request_files, cur,
               request_data, response_text, calls, exc, running, QWEN_CODE_API_URL,
               processed, written, answered, second, context>>

vars == <<queueVars, botVars>>

prodVars == <<ppc, waited, pdata, presult>>
consVars == <<cpc, request_files, cur, request_data, response_text, calls, exc,
              processed, written, answered, context>>

\* ----------------------------------------------------------- booking bot
\* config.py. TELEGRAM_ADMIN_ID is set to the id of the first user.
ADMIN_ID == 1
\* Telegram ids of the users who talk to the bot: the administrator and one
\* other user.
Users == {1, 2}
SERVICES == [haircut |-> [name |-> "Haircut", duration |-> 60, price |-> 1500]]
WORK_HOURS == [start |-> 9, end |-> MaxEndHour]
SLOT_INTERVAL == 30
\* WORK_DAYS = [0..5]: a Monday the bot offers, and a Sunday it refuses.
Today == "2026-01-05"
Sunday == "2026-01-11"
weekday(date) == IF date = Today THEN 0 ELSE 6
WORK_DAYS == 0..5

\* f"{n:02d}"
Digit(d) ==
    CASE d = 0 -> "0" [] d = 1 -> "1" [] d = 2 -> "2" [] d = 3 -> "3" [] d = 4 -> "4"
      [] d = 5 -> "5" [] d = 6 -> "6" [] d = 7 -> "7" [] d = 8 -> "8" [] d = 9 -> "9"
TwoDigits(n) == Digit(n \div 10) \o Digit(n % 10)
\* f"{hour:02d}:{minute:02d}", the time_str of get_times_keyboard
TimeStr(hour, minute) == TwoDigits(hour) \o ":" \o TwoDigits(minute)

\* The times get_times_keyboard puts on its buttons (callback data
\* "time_HH:MM"): every SLOT_INTERVAL minutes within the working hours. A
\* keyboard stays in the chat, so a button can be pressed at any later time.
get_times_keyboard ==
    {TimeStr(hour, minute) : hour \in WORK_HOURS.start..(WORK_HOURS.end - 1),
                             minute \in {m \in 0..59 : m % SLOT_INTERVAL = 0}}

\* The clock counts half hours since midnight; the bot is started one hour
\* before the first slot and observed until the end of the working day.
FirstNow == 2 * (WORK_HOURS.start - 1)
LastNow == 2 * WORK_HOURS.end
\* datetime.strftime("%H:%M") and strftime("%H:00") of a clock value
strftime_HM(t) == TimeStr(t \div 2, 30 * (t % 2))
strftime_H00(t) == TwoDigits(t \div 2) \o ":00"
\* Position of an "HH:MM" text in the order sqlite compares TEXT by; for
\* these fixed-width texts it is the order of the times of day.
HalfHours == [k \in 0..47 |-> strftime_HM(k)]
TextRank(s) == CHOOSE k \in 0..47 : HalfHours[k] = s
\* SQL: x BETWEEN lo AND hi
BETWEEN(x, lo, hi) == TextRank(lo) <= TextRank(x) /\ TextRank(x) <= TextRank(hi)

\* An FSMContext without data; state.update_data(**kv)
EmptyData == [k \in {} |-> None]
update_data(d, kv) ==
    [k \in DOMAIN d \cup DOMAIN kv |-> IF k \in DOMAIN kv THEN kv[k] ELSE d[k]]

\* The bot process right after main() has started: no conversation, the
\* reminder task at the top of its loop.
InitBotProcess ==
    /\ now = FirstNow
    /\ fsm_state = [u \in Users |-> None]
    /\ fsm_data = [u \in Users |-> EmptyData]
    /\ bpc = [u \in Users |-> "idle"]
    /\ last_cancel = None
    /\ rpc = "query"
    /\ appts = <<>>
    /\ selected = {}
    /\ reminders = [i \in 1..MaxAppointments |-> 0]
    /\ panel = {}
    /\ last_admin = [action |-> None, user_id |-> 0]

\* The first start of the bot: the table of appointments is empty.
InitBot ==
    /\ appointments = <<>>
    /\ InitBotProcess

\* ------------------------------------------------------------------ Init
\* The two queue directories and their tasks at the start.
InitQueue ==
    /\ requests \in [AllIds -> {Absent, Garbage, JsonList}]
    /\ \A x \in Tasks : requests[x] = Absent
    /\ responses = [x \in AllIds |-> Absent]
    /\ ppc = [p \in Tasks |-> "start"]
    /\ waited = [p \in Tasks |-> 0]
    /\ pdata = [p \in Tasks |-> [status |-> None]]
    /\ presult = [p \in Tasks |-> None]
    /\ cpc = "while"
    /\ request_files = {}
    /\ cur = 0
    /\ request_data = Unbound
    /\ response_text = None
    /\ calls = <<>>
    /\ exc = None
    /\ running = TRUE
    /\ QWEN_CODE_API_URL \in {"", "http://qwen"}
    /\ processed = {}
    /\ written = [x \in AllIds |-> None]
    /\ answered = {}
    /\ second = [pc |-> "while", files |-> {}, cur |-> 0, data |-> Unbound,
                 text |-> None, exc |-> None, wrote |-> {}]
    /\ context = <<>>

Init ==
    /\ InitQueue
    /\ InitBot

\* -------------------------------------------------------------- producer
\* The request record test_queue_to_qwen builds for task p.
TestRequest(p, prompt) ==
    [id |-> p, user_id |-> TEST_USER_ID, prompt |-> prompt,
     history |-> <<>>, timestamp |-> "ts"]

\* open(request_file, "w"): the file now exists, still without its record.
CreateRequest(p) ==
    /\ ppc[p] = "start"
    /\ requests' = [requests EXCEPT ![p] = Partial]
    /\ ppc' = [ppc EXCEPT ![p] = "dump"]
    /\ UNCHANGED <<botVars, second, responses, waited, pdata, presult, consVars, running, QWEN_CODE_API_URL>>

\* json.dump(test_request, f) and the close of the with block.
DumpRequest(p) ==
    /\ ppc[p] = "dump"
    /\ requests' = [requests EXCEPT ![p] = Json(TestRequest(p, PromptOf(p)))]
    /\ ppc' = [ppc EXCEPT ![p] = "poll"]
    /\ UNCHANGED <<botVars, second, responses, waited, pdata, presult, consVars, running, QWEN_CODE_API_URL>>

\* Mutant of Poll: the loop forgets `waited += 1`.
Poll_NoCount(p) ==
    /\ ppc[p] = "poll"
    /\ waited[p] < MaxWait
    /\ ppc' = [ppc EXCEPT ![p] =
                 IF responses[p] # Absent THEN "after_loop" ELSE "poll"]
    /\ UNCHANGED <<botVars, second, requests, responses, waited, pdata, presult, consVars, running,
                   QWEN_CODE_API_URL>>

\* Mutant of Poll: the waits are served one at a time: a call polls only
\* when no call with a smaller id is still polling.
Poll_Blocking(p) ==
    /\ ppc[p] = "poll"
    /\ \A q \in Tasks : q < p => ppc[q] # "poll"
    /\ waited[p] < MaxWait
    /\ waited' = [waited EXCEPT ![p] = @ + 1]
    /\ ppc' = [ppc EXCEPT ![p] =
                 IF responses[p] # Absent \/ waited[p] + 1 >= MaxWait
                 THEN "after_loop" ELSE "poll"]
    /\ UNCHANGED <<botVars, second, requests, responses, pdata, presult, consVars, running, QWEN_CODE_API_URL>>

\* One turn of `while waited < max_wait`: sleep, count, look for the response.
Poll(p) ==
    /\ ppc[p] = "poll"
    /\ waited[p] < MaxWait
    /\ waited' = [waited EXCEPT ![p] = @ + 1]
    /\ ppc' = [ppc EXCEPT ![p] =
                 IF responses[p] # Absent \/ waited[p] + 1 >= MaxWait
                 THEN "after_loop" ELSE "poll"]
    /\ UNCHANGED <<botVars, second, requests, responses, pdata, presult, consVars, running, QWEN_CODE_API_URL>>

\* `if not response_file.exists()` after the loop.
AfterLoop(p) ==
    /\ ppc[p] = "after_loop"
    /\ ppc' = [ppc EXCEPT ![p] =
                 IF responses[p] = Absent THEN "timeout_exists" ELSE "read"]
    /\ UNCHANGED <<botVars, second, requests, responses, waited, pdata, presult, consVars, running,
                   QWEN_CODE_API_URL>>

\* Timeout branch: `if request_file.exists():`
TimeoutExists(p) ==
    /\ ppc[p] = "timeout_exists"
    /\ ppc' = [ppc EXCEPT ![p] =
                 IF requests[p] # Absent THEN "timeout_unlink" ELSE "returned_false"]
    /\ UNCHANGED <<botVars, second, requests, responses, waited, pdata, presult, consVars, running,
                   QWEN_CODE_API_URL>>

\* Mutant of TimeoutUnlink: on timeout the producer also leaves a timeout
\* record in the response directory.
TimeoutUnlink_WritesResponse(p) ==
    /\ ppc[p] = "timeout_unlink"
    /\ responses' = [responses EXCEPT ![p] =
                       Json([id |-> p, error |-> "timeout", timestamp |-> "ts",
                             status |-> "error"])]
    /\ IF requests[p] # Absent
       THEN /\ requests' = [requests EXCEPT ![p] = Absent]
            /\ ppc' = [ppc EXCEPT ![p] = "returned_false"]
       ELSE /\ ppc' = [ppc EXCEPT ![p] = "raised"]
            /\ UNCHANGED requests
    /\ UNCHANGED <<botVars, second, waited, pdata, presult, consVars, running, QWEN_CODE_API_URL>>

\* Timeout branch: `request_file.unlink()`; FileNotFoundError when it is gone.
TimeoutUnlink(p) ==
    /\ ppc[p] = "timeout_unlink"
    /\ IF requests[p] # Absent
       THEN /\ requests' = [requests EXCEPT ![p] = Absent]
            /\ ppc' = [ppc EXCEPT ![p] = "returned_false"]
       ELSE /\ ppc' = [ppc EXCEPT ![p] = "raised"]
            /\ UNCHANGED requests
    /\ UNCHANGED <<botVars, second, responses, waited, pdata, presult, consVars, running, QWEN_CODE_API_URL>>

\* Mutant of ReadResponse: the producer reads the key "result" (the name the
\* design document uses) instead of "response".
ReadResponse_WrongKey(p) ==
    /\ ppc[p] = "read"
    /\ IF responses[p].kind = "json"
       THEN /\ pdata' = [pdata EXCEPT ![p] = responses[p].data]
            /\ presult' = [presult EXCEPT ![p] = Get(responses[p].data, "result", "")]
            /\ ppc' = [ppc EXCEPT ![p] = "req_exists"]
       ELSE /\ ppc' = [ppc EXCEPT ![p] = "raised"]
            /\ UNCHANGED <<pdata, presult>>
    /\ UNCHANGED <<botVars, second, requests, responses, waited, consVars, running, QWEN_CODE_API_URL>>

\* open(response_file) + json.load + response_data.get("response", "").
ReadResponse(p) ==
    /\ ppc[p] = "read"
    /\ IF responses[p].kind = "json"
       THEN /\ pdata' = [pdata EXCEPT ![p] = responses[p].data]
            /\ presult' = [presult EXCEPT ![p] = Get(responses[p].data, "response", "")]
            /\ ppc' = [ppc EXCEPT ![p] = "req_exists"]
       ELSE /\ ppc' = [ppc EXCEPT ![p] = "raised"]
            /\ UNCHANGED <<pdata, presult>>
    /\ UNCHANGED <<botVars, second, requests, responses, waited, consVars, running, QWEN_CODE_API_URL>>

\* Cleanup: `if request_file.exists():`
CleanupRequestExists(p) ==
    /\ ppc[p] = "req_exists"
    /\ ppc' = [ppc EXCEPT ![p] =
                 IF requests[p] # Absent THEN "req_unlink" ELSE "resp_exists"]
    /\ UNCHANGED <<botVars, second, requests, responses, waited, pdata, presult, consVars, running,
                   QWEN_CODE_API_URL>>

\* Cleanup: `request_file.unlink()`
CleanupRequestUnlink(p) ==
    /\ ppc[p] = "req_unlink"
    /\ IF requests[p] # Absent
       THEN /\ requests' = [requests EXCEPT ![p] = Absent]
            /\ ppc' = [ppc EXCEPT ![p] = "resp_exists"]
       ELSE /\ ppc' = [ppc EXCEPT ![p] = "raised"]
            /\ UNCHANGED requests
    /\ UNCHANGED <<botVars, second, responses, waited, pdata, presult, consVars, running, QWEN_CODE_API_URL>>

\* Cleanup: `if response_file.exists():`
CleanupResponseExists(p) ==
    /\ ppc[p] = "resp_exists"
    /\ ppc' = [ppc EXCEPT ![p] =
                 IF responses[p] # Absent THEN "resp_unlink" ELSE "returned_true"]
    /\ UNCHANGED <<botVars, second, requests, responses, waited, pdata, presult, consVars, running,
                   QWEN_CODE_API_URL>>

\* Cleanup: `response_file.unlink()`, then `return True`.
CleanupResponseUnlink(p) ==
    /\ ppc[p] = "resp_unlink"
    /\ IF responses[p] # Absent
       THEN /\ responses' = [responses EXCEPT ![p] = Absent]
            /\ ppc' = [ppc EXCEPT ![p] = "returned_true"]
       ELSE /\ ppc' = [ppc EXCEPT ![p] = "raised"]
            /\ UNCHANGED responses
    /\ UNCHANGED <<botVars, second, requests, waited, pdata, presult, consVars, running, QWEN_CODE_API_URL>>

ProducerStep(p) ==
    \/ CreateRequest(p)
    \/ DumpRequest(p)
    \/ Poll(p)
    \/ AfterLoop(p)
    \/ TimeoutExists(p)
    \/ TimeoutUnlink(p)
    \/ ReadResponse(p)
    \/ CleanupRequestExists(p)
    \/ CleanupRequestUnlink(p)
    \/ CleanupResponseExists(p)
    \/ CleanupResponseUnlink(p)

\* -------------------------------------------------------------- providers
TIMEOUT_TEXT == "Qwen CLI timeout message"

\* Number of history entries process_with_qwen_cli puts into the context.
HISTORY_WINDOW == 5

\* Python's seq[-n:].
LastN(seq, n) ==
    IF Len(seq) <= n THEN seq ELSE SubSeq(seq, Len(seq) - n + 1, Len(seq))

\* The (role, content) pairs of a list of history entries, in its order.
Turns(history) ==
    [i \in 1..Len(history) |->
        <<Get(history[i], "role", "unknown"), Get(history[i], "content", "")>>]

\* The "role: content" lines process_with_qwen_cli sends to the subprocess.
CliContext(d) == Turns(LastN(Get(d, "history", <<>>), HISTORY_WINDOW))

\* process_with_qwen_api posts the request record as it is, history included.
ApiContext(d) == Turns(Get(d, "history", <<>>))

\* What the subprocess can do: exit with a code, stdout and stderr; not be
\* found; run past the 120 s bound; fail in some other way.
CliOutcomes ==
    [kind : {"exit"}, returncode : {0}, stdout : {" \n", "answer\n"}, stderr : {""}]
    \cup [kind : {"exit"}, returncode : {1}, stdout : {"", "partial\n"}, stderr : {"boom"}]
    \cup {[kind |-> "FileNotFoundError"], [kind |-> "TimeoutError"], [kind |-> "Exception"]}

\* How a subprocess outcome is named in the list of calls.
CliKind(o) ==
    IF o.kind = "exit" THEN (IF o.returncode = 0 THEN "exit0" ELSE "nonzero") ELSE o.kind

\* Mutant of process_with_qwen_cli: a missing executable is reported as an
\* error text, like a nonzero exit, instead of None.
process_with_qwen_cli_NotFoundText(o) ==
    IF o.kind = "exit"
    THEN IF o.returncode = 0
         THEN Strip(o.stdout)
         ELSE IF Truthy(Strip(o.stdout)) THEN Strip(o.stdout) ELSE "Error: " \o o.stderr
    ELSE IF o.kind = "FileNotFoundError" THEN "Error: qwen not found"
    ELSE IF o.kind = "TimeoutError" THEN TIMEOUT_TEXT
    ELSE None

\* Mutant of process_with_qwen_cli: a timeout returns None, like the other
\* exceptions.
process_with_qwen_cli_TimeoutNone(o) ==
    IF o.kind = "exit"
    THEN IF o.returncode = 0
         THEN Strip(o.stdout)
         ELSE IF Truthy(Strip(o.stdout)) THEN Strip(o.stdout) ELSE "Error: " \o o.stderr
    ELSE None

\* Mutant of process_with_qwen_cli: a nonzero exit returns None, whatever
\* the subprocess printed.
process_with_qwen_cli_NonzeroNone(o) ==
    IF o.kind = "exit"
    THEN IF o.returncode = 0 THEN Strip(o.stdout) ELSE None
    ELSE IF o.kind = "FileNotFoundError" THEN None
    ELSE IF o.kind = "TimeoutError" THEN TIMEOUT_TEXT
    ELSE None

\* Return value of process_with_qwen_cli for an outcome of the subprocess.
process_with_qwen_cli(o) ==
    IF o.kind = "exit"
    THEN IF o.returncode = 0
         THEN Strip(o.stdout)
         ELSE IF Truthy(Strip(o.stdout)) THEN Strip(o.stdout) ELSE "Error: " \o o.stderr
    ELSE IF o.kind = "FileNotFoundError" THEN None
    ELSE IF o.kind = "TimeoutError" THEN TIMEOUT_TEXT
    ELSE None

\* What the HTTP call can do: answer 200 with a JSON object, answer another
\* status, or raise (connection error, total timeout of 120 s).
ApiOutcomes ==
    [kind : {"http"}, status : {200},
     body : {[response |-> "api answer"], [answer |-> "api answer 2"],
             [response |-> ""], [detail |-> "x"]}]
    \cup {[kind |-> "http", status |-> 500, body |-> [detail |-> "x"]],
          [kind |-> "TimeoutError"], [kind |-> "Exception"], [kind |-> "ImportError"]}

\* How an HTTP outcome is named in the list of calls.
ApiKind(o) ==
    IF o.kind = "http" THEN (IF o.status = 200 THEN "http200" ELSE "http_error") ELSE o.kind

\* str(result) of a JSON object (only taken when it has neither key).
StrOfDict(d) == "{'detail': 'x'}"

\* Return value of process_with_qwen_api once the URL is configured and
\* aiohttp imported.
process_with_qwen_api(o) ==
    IF o.kind = "http" /\ o.status = 200
    THEN Get(o.body, "response", Get(o.body, "answer", StrOfDict(o.body)))
    ELSE None

generate_mock_response(d) == "mock: " \o Get(d, "prompt", "")

\* -------------------------------------------------------------- consumer
Call(provider, outcome, returned) ==
    [provider |-> provider, outcome |-> outcome, returned |-> returned]

\* The locals of process_request go out of scope when it returns.
ReturnFromProcessRequest ==
    /\ cpc' = "for"
    /\ cur' = 0
    /\ request_data' = Unbound
    /\ response_text' = None
    /\ calls' = <<>>
    /\ exc' = None
    /\ context' = <<>>

\* Used by a mutant: the exception leaves process_request and the loop.
ReturnFromProcessRequest_Stopped ==
    /\ cpc' = "stopped"
    /\ cur' = 0
    /\ request_data' = Unbound
    /\ response_text' = None
    /\ calls' = <<>>
    /\ exc' = None
    /\ context' = <<>>

\* str(e) of what open/json.load/.get raise on a request file's content.
ReadError(content) ==
    CASE content.kind = "absent" -> "FileNotFoundError"
      [] content.kind = "json_list" -> "AttributeError"
      [] OTHER -> "JSONDecodeError"

\* Mutant of MonitorWhile: the loop is `while True:`, the flag is not read.
MonitorWhile_Forever ==
    /\ cpc = "while"
    /\ request_files' = {x \in AllIds : requests[x] # Absent}
    /\ cpc' = "for"
    /\ UNCHANGED <<botVars, second, context, requests, responses, prodVars, cur, request_data, response_text,
                   calls, exc, running, QWEN_CODE_API_URL, processed, written, answered>>

\* `while running:` after the sleep of the previous turn, then the glob.
MonitorWhile ==
    /\ cpc = "while"
    /\ IF running
       THEN /\ request_files' = {x \in AllIds : requests[x] # Absent}
            /\ cpc' = "for"
       ELSE /\ cpc' = "stopped"
            /\ UNCHANGED request_files
    /\ UNCHANGED <<botVars, second, context, requests, responses, prodVars, cur, request_data, response_text,
                   calls, exc, running, QWEN_CODE_API_URL, processed, written, answered>>

\* Mutant of MonitorFor: the loop lacks `if not running: break`.
MonitorFor_NoBreak ==
    /\ cpc = "for"
    /\ IF request_files = {}
       THEN /\ cpc' = "while"
            /\ request_files' = {}
            /\ UNCHANGED cur
       ELSE \E f \in request_files :
              /\ cur' = f
              /\ request_files' = request_files \ {f}
              /\ cpc' = "open"
    /\ UNCHANGED <<botVars, second, context, requests, responses, prodVars, request_data, response_text,
                   calls, exc, running, QWEN_CODE_API_URL, processed, written, answered>>

\* `for request_file in request_files: if not running: break`, in the order
\* the directory enumeration happens to give.
MonitorFor ==
    /\ cpc = "for"
    /\ IF request_files = {} \/ ~running
       THEN /\ cpc' = "while"
            /\ request_files' = {}
            /\ UNCHANGED cur
       ELSE \E f \in request_files :
              /\ cur' = f
              /\ request_files' = request_files \ {f}
              /\ cpc' = "open"
    /\ UNCHANGED <<botVars, second, context, requests, responses, prodVars, request_data, response_text,
                   calls, exc, running, QWEN_CODE_API_URL, processed, written, answered>>

\* Mutant of ReadRequest: a request that cannot be read is only logged; the
\* call returns without writing any response.
ReadRequest_ErrorSkips ==
    /\ cpc = "open"
    /\ processed' = processed \cup {cur}
    /\ IF requests[cur].kind = "json"
       THEN /\ request_data' = requests[cur].data
            /\ cpc' = "cli"
            /\ UNCHANGED <<cur, response_text, calls, exc>>
       ELSE ReturnFromProcessRequest
    /\ UNCHANGED <<botVars, second, context, requests, responses, prodVars, request_files, running,
                   QWEN_CODE_API_URL, written, answered>>

\* Mutant of ReadRequest: the consumer claims the request by deleting its file
\* as soon as it has read it.
ReadRequest_DeleteOnRead ==
    /\ cpc = "open"
    /\ processed' = processed \cup {cur}
    /\ IF requests[cur].kind = "json"
       THEN /\ request_data' = requests[cur].data
            /\ requests' = [requests EXCEPT ![cur] = Absent]
            /\ cpc' = "cli"
            /\ UNCHANGED exc
       ELSE /\ exc' = ReadError(requests[cur])
            /\ cpc' = "error_open"
            /\ UNCHANGED <<request_data, requests>>
    /\ UNCHANGED <<botVars, second, context, responses, prodVars, request_files, cur, response_text,
                   calls, running, QWEN_CODE_API_URL, written, answered>>

\* process_request: open + json.load + the two .get calls and the log line.
ReadRequest ==
    /\ cpc = "open"
    /\ processed' = processed \cup {cur}
    /\ IF requests[cur].kind = "json"
       THEN /\ request_data' = requests[cur].data
            /\ cpc' = "cli"
            /\ UNCHANGED exc
       ELSE /\ exc' = ReadError(requests[cur])
            /\ cpc' = "error_open"
            /\ UNCHANGED request_data
    /\ UNCHANGED <<botVars, second, context, requests, responses, prodVars, request_files, cur, response_text,
                   calls, running, QWEN_CODE_API_URL, written, answered>>

\* Mutant of TryCli: communicate() is awaited without wait_for, so a
\* subprocess that does not end is waited for without end.
TryCli_Hangs ==
    /\ cpc = "cli"
    /\ \E o \in CliOutcomes :
         IF o.kind = "TimeoutError"
         THEN /\ cpc' = "hung"
              /\ UNCHANGED <<response_text, calls>>
         ELSE /\ response_text' = process_with_qwen_cli(o)
              /\ calls' = Append(calls, Call("cli", CliKind(o), process_with_qwen_cli(o)))
              /\ cpc' = "api"
    /\ context' = CliContext(request_data)
    /\ UNCHANGED <<botVars, second, requests, responses, prodVars, request_files, cur, request_data,
                   exc, running, QWEN_CODE_API_URL, processed, written, answered>>

\* "1. Try CLI first": response_text is None here, so the call always happens.
TryCli ==
    /\ cpc = "cli"
    /\ \E o \in CliOutcomes :
         /\ response_text' = process_with_qwen_cli(o)
         /\ calls' = Append(calls, Call("cli", CliKind(o), process_with_qwen_cli(o)))
    /\ context' = CliContext(request_data)
    /\ cpc' = "api"
    /\ UNCHANGED <<botVars, second, requests, responses, prodVars, request_files, cur, request_data,
                   exc, running, QWEN_CODE_API_URL, processed, written, answered>>

\* Mutant of TryApi: the API is called whenever a URL is configured, also
\* when the CLI has already answered.
TryApi_Always ==
    /\ cpc = "api"
    /\ IF QWEN_CODE_API_URL # ""
       THEN \E o \in ApiOutcomes :
              IF o.kind = "ImportError"
              THEN /\ exc' = "ImportError"
                   /\ cpc' = "error_open"
                   /\ UNCHANGED <<response_text, calls, context>>
              ELSE /\ response_text' = process_with_qwen_api(o)
                   /\ calls' = Append(calls, Call("api", ApiKind(o), process_with_qwen_api(o)))
                   /\ context' = ApiContext(request_data)
                   /\ cpc' = "mock"
                   /\ UNCHANGED exc
       ELSE /\ cpc' = "mock"
            /\ UNCHANGED <<response_text, calls, exc, context>>
    /\ UNCHANGED <<botVars, second, requests, responses, prodVars, request_files, cur, request_data,
                   running, QWEN_CODE_API_URL, processed, written, answered>>

\* Mutant of TryApi: the API is called whenever the CLI gave no answer,
\* whether or not a URL is configured.
TryApi_NoUrlCheck ==
    /\ cpc = "api"
    /\ IF ~Truthy(response_text)
       THEN \E o \in ApiOutcomes :
              IF o.kind = "ImportError"
              THEN /\ exc' = "ImportError"
                   /\ cpc' = "error_open"
                   /\ UNCHANGED <<response_text, calls, context>>
              ELSE /\ response_text' = process_with_qwen_api(o)
                   /\ calls' = Append(calls, Call("api", ApiKind(o), process_with_qwen_api(o)))
                   /\ context' = ApiContext(request_data)
                   /\ cpc' = "mock"
                   /\ UNCHANGED exc
       ELSE /\ cpc' = "mock"
            /\ UNCHANGED <<response_text, calls, exc, context>>
    /\ UNCHANGED <<botVars, second, requests, responses, prodVars, request_files, cur, request_data,
                   running, QWEN_CODE_API_URL, processed, written, answered>>

\* "2. Try API": only without an answer so far and with a URL configured.
\* `import aiohttp` is outside the try of process_with_qwen_api, so an
\* ImportError reaches the except of process_request.
TryApi ==
    /\ cpc = "api"
    /\ IF ~Truthy(response_text) /\ QWEN_CODE_API_URL # ""
       THEN \E o \in ApiOutcomes :
              IF o.kind = "ImportError"
              THEN /\ exc' = "ImportError"
                   /\ cpc' = "error_open"
                   /\ UNCHANGED <<response_text, calls, context>>
              ELSE /\ response_text' = process_with_qwen_api(o)
                   /\ calls' = Append(calls, Call("api", ApiKind(o), process_with_qwen_api(o)))
                   /\ context' = ApiContext(request_data)
                   /\ cpc' = "mock"
                   /\ UNCHANGED exc
       ELSE /\ cpc' = "mock"
            /\ UNCHANGED <<response_text, calls, exc, context>>
    /\ UNCHANGED <<botVars, second, requests, responses, prodVars, request_files, cur, request_data,
                   running, QWEN_CODE_API_URL, processed, written, answered>>

\* Mutant of Fallback: the fallback text is generated only when no provider
\* returned anything at all, so an empty answer is kept.
Fallback_OnlyNone ==
    /\ cpc = "mock"
    /\ IF response_text = None
       THEN /\ response_text' = generate_mock_response(request_data)
            /\ calls' = Append(calls, Call("mock", "text", generate_mock_response(request_data)))
       ELSE UNCHANGED <<response_text, calls>>
    /\ cpc' = "write_open"
    /\ UNCHANGED <<botVars, second, context, requests, responses, prodVars, request_files, cur, request_data,
                   exc, running, QWEN_CODE_API_URL, processed, written, answered>>

\* "3. Fallback to mock"
Fallback ==
    /\ cpc = "mock"
    /\ IF ~Truthy(response_text)
       THEN /\ response_text' = generate_mock_response(request_data)
            /\ calls' = Append(calls, Call("mock", "text", generate_mock_response(request_data)))
       ELSE UNCHANGED <<response_text, calls>>
    /\ cpc' = "write_open"
    /\ UNCHANGED <<botVars, second, context, requests, responses, prodVars, request_files, cur, request_data,
                   exc, running, QWEN_CODE_API_URL, processed, written, answered>>

\* Mutant of ResponseData: every record is stamped with the same id.
ResponseData_OneId ==
    [id |-> 1, user_id |-> Get(request_data, "user_id", "unknown"),
     response |-> response_text, timestamp |-> "ts", status |-> "completed"]

\* The completed record process_request builds.
ResponseData ==
    [id |-> cur, user_id |-> Get(request_data, "user_id", "unknown"),
     response |-> response_text, timestamp |-> "ts", status |-> "completed"]

\* Mutant of ErrorData: the error record carries no "error" key.
ErrorData_NoDetail == [id |-> cur, timestamp |-> "ts", status |-> "error"]

\* The error record process_request builds in its except branch.
ErrorData == [id |-> cur, error |-> exc, timestamp |-> "ts", status |-> "error"]

\* Mutant of WriteResponseOpen: a response file that is already there is
\* left as it is, so the first writer's record stays.
WriteResponseOpen_IfAbsent ==
    /\ cpc = "write_open"
    /\ IF responses[cur] = Absent
       THEN /\ responses' = [responses EXCEPT ![cur] = Partial]
            /\ cpc' = "write_dump"
       ELSE /\ cpc' = "unlink"
            /\ UNCHANGED responses
    /\ UNCHANGED <<botVars, second, context, requests, prodVars, request_files, cur, request_data, response_text,
                   calls, exc, running, QWEN_CODE_API_URL, processed, written, answered>>

\* open(response_file, "w") of the completed response.
WriteResponseOpen ==
    /\ cpc = "write_open"
    /\ responses' = [responses EXCEPT ![cur] = Partial]
    /\ cpc' = "write_dump"
    /\ UNCHANGED <<botVars, second, context, requests, prodVars, request_files, cur, request_data, response_text,
                   calls, exc, running, QWEN_CODE_API_URL, processed, written, answered>>

\* json.dump(response_data, f), the close, and "Response written".
WriteResponseDump ==
    /\ cpc = "write_dump"
    /\ responses' = [responses EXCEPT ![cur] = Json(ResponseData)]
    /\ written' = [written EXCEPT ![cur] = response_text]
    /\ answered' = answered \cup {cur}
    /\ cpc' = "unlink"
    /\ UNCHANGED <<botVars, second, context, requests, prodVars, request_files, cur, request_data, response_text,
                   calls, exc, running, QWEN_CODE_API_URL, processed>>

\* Mutant of UnlinkRequest: the cleanup removes every request file the sweep
\* still has on its list, not only the one just answered.
UnlinkRequest_Listed ==
    /\ cpc = "unlink"
    /\ requests' = [x \in AllIds |->
                      IF x = cur \/ x \in request_files THEN Absent ELSE requests[x]]
    /\ ReturnFromProcessRequest
    /\ UNCHANGED <<botVars, second, responses, prodVars, request_files, running, QWEN_CODE_API_URL,
                   processed, written, answered>>

\* "Clean up request file": unlink inside try/except-pass, so a missing file
\* is ignored.
UnlinkRequest ==
    /\ cpc = "unlink"
    /\ requests' = [requests EXCEPT ![cur] = Absent]
    /\ ReturnFromProcessRequest
    /\ UNCHANGED <<botVars, second, responses, prodVars, request_files, running, QWEN_CODE_API_URL,
                   processed, written, answered>>

\* except branch: open(response_file, "w") of the error response.
WriteErrorOpen ==
    /\ cpc = "error_open"
    /\ responses' = [responses EXCEPT ![cur] = Partial]
    /\ cpc' = "error_dump"
    /\ UNCHANGED <<botVars, second, context, requests, prodVars, request_files, cur, request_data, response_text,
                   calls, exc, running, QWEN_CODE_API_URL, processed, written, answered>>

\* Mutant of WriteErrorDump: the except branch re-raises after writing, which
\* ends monitor_queue.
WriteErrorDump_Reraise ==
    /\ cpc = "error_dump"
    /\ responses' = [responses EXCEPT ![cur] = Json(ErrorData)]
    /\ answered' = answered \cup {cur}
    /\ ReturnFromProcessRequest_Stopped
    /\ UNCHANGED <<botVars, second, requests, prodVars, request_files, running, QWEN_CODE_API_URL,
                   processed, written>>

\* Mutant of WriteErrorDump: the except branch only logs and writes nothing.
WriteErrorDump_Silent ==
    /\ cpc = "error_dump"
    /\ responses' = [responses EXCEPT ![cur] = Absent]
    /\ ReturnFromProcessRequest
    /\ UNCHANGED <<botVars, second, requests, prodVars, request_files, running, QWEN_CODE_API_URL,
                   processed, written, answered>>

\* except branch: json.dump(error_data, f); process_request returns.
WriteErrorDump ==
    /\ cpc = "error_dump"
    /\ responses' = [responses EXCEPT ![cur] = Json(ErrorData)]
    /\ answered' = answered \cup {cur}
    /\ ReturnFromProcessRequest
    /\ UNCHANGED <<botVars, second, requests, prodVars, request_files, running, QWEN_CODE_API_URL,
                   processed, written>>

\* SIGINT / SIGTERM
signal_handler ==
    /\ running
    /\ running' = FALSE
    /\ UNCHANGED <<botVars, second, requests, responses, prodVars, consVars, QWEN_CODE_API_URL>>

ConsumerStep ==
    \/ MonitorWhile
    \/ MonitorFor
    \/ ReadRequest
    \/ TryCli
    \/ TryApi
    \/ Fallback
    \/ WriteResponseOpen
    \/ WriteResponseDump
    \/ UnlinkRequest
    \/ WriteErrorOpen
    \/ WriteErrorDump

Next ==
    \/ \E p \in Producers : ProducerStep(p)
    \/ ConsumerStep
    \/ signal_handler

Spec == Init /\ [][Next]_vars

\* The consumer is one asyncio task that is always scheduled again, and each
\* producer task is resumed after its sleep; signals may or may not arrive.
FairSpec ==
    /\ Spec
    /\ WF_vars(ConsumerStep)
    /\ \A p \in Producers : WF_vars(ProducerStep(p))

\* ---------------------------------------------------------- with history
\* The k-th turn of a conversation.
Entry(k) ==
    [role |-> IF k % 2 = 1 THEN "user" ELSE "assistant", content |-> k]

\* A request file as a producer with conversation memory writes it: the
\* record of test_queue_to_qwen with h prior turns in "history".
RequestWithHistory(x, h) ==
    [TestRequest(x, PromptOf(x)) EXCEPT !.history = [k \in 1..h |-> Entry(k)]]

\* The consumer starts with one such request file in the queue.
InitWithHistory ==
    /\ \E h \in 0..MaxHistory :
          requests = [x \in AllIds |->
                        IF x \in BadIds THEN Json(RequestWithHistory(x, h)) ELSE Absent]
    /\ responses = [x \in AllIds |-> Absent]
    /\ ppc = [p \in Tasks |-> "start"]
    /\ waited = [p \in Tasks |-> 0]
    /\ pdata = [p \in Tasks |-> [status |-> None]]
    /\ presult = [p \in Tasks |-> None]
    /\ cpc = "while"
    /\ request_files = {}
    /\ cur = 0
    /\ request_data = Unbound
    /\ response_text = None
    /\ calls = <<>>
    /\ exc = None
    /\ running = TRUE
    /\ QWEN_CODE_API_URL \in {"", "http://qwen"}
    /\ processed = {}
    /\ written = [x \in AllIds |-> None]
    /\ answered = {}
    /\ second = [pc |-> "while", files |-> {}, cur |-> 0, data |-> Unbound,
                 text |-> None, exc |-> None, wrote |-> {}]
    /\ context = <<>>
    /\ InitBot

NextWithHistory ==
    \/ ConsumerStep
    \/ signal_handler

WithHistory == InitWithHistory /\ [][NextWithHistory]_vars

\* A start with no foreign file in the request directory and no API URL
\* configured.
InitEmptyQueue ==
    /\ Init
    /\ \A x \in AllIds : requests[x] = Absent
    /\ QWEN_CODE_API_URL = ""

\* ------------------------------------------------------ second consumer
\* A second queue_processor process started on the same two directories. It
\* runs the same monitor_queue and process_request with locals of its own;
\* no signal is sent to it.
Second_MonitorWhile ==
    /\ second.pc = "while"
    /\ second' = [second EXCEPT !.pc = "for",
                                !.files = {x \in AllIds : requests[x] # Absent}]
    /\ UNCHANGED <<botVars, requests, responses, prodVars, consVars, running, QWEN_CODE_API_URL>>

Second_MonitorFor ==
    /\ second.pc = "for"
    /\ IF second.files = {}
       THEN second' = [second EXCEPT !.pc = "while"]
       ELSE \E f \in second.files :
              second' = [second EXCEPT !.pc = "open", !.cur = f, !.files = @ \ {f}]
    /\ UNCHANGED <<botVars, requests, responses, prodVars, consVars, running, QWEN_CODE_API_URL>>

Second_ReadRequest ==
    /\ second.pc = "open"
    /\ IF requests[second.cur].kind = "json"
       THEN second' = [second EXCEPT !.pc = "cli", !.data = requests[second.cur].data]
       ELSE second' = [second EXCEPT !.pc = "error_open",
                                     !.exc = ReadError(requests[second.cur])]
    /\ UNCHANGED <<botVars, requests, responses, prodVars, consVars, running, QWEN_CODE_API_URL>>

Second_TryCli ==
    /\ second.pc = "cli"
    /\ \E o \in CliOutcomes :
         second' = [second EXCEPT !.pc = "api", !.text = process_with_qwen_cli(o)]
    /\ UNCHANGED <<botVars, requests, responses, prodVars, consVars, running, QWEN_CODE_API_URL>>

Second_TryApi ==
    /\ second.pc = "api"
    /\ IF ~Truthy(second.text) /\ QWEN_CODE_API_URL # ""
       THEN \E o \in ApiOutcomes :
              IF o.kind = "ImportError"
              THEN second' = [second EXCEPT !.pc = "error_open", !.exc = "ImportError"]
              ELSE second' = [second EXCEPT !.pc = "mock",
                                            !.text = process_with_qwen_api(o)]
       ELSE second' = [second EXCEPT !.pc = "mock"]
    /\ UNCHANGED <<botVars, requests, responses, prodVars, consVars, running, QWEN_CODE_API_URL>>

Second_Fallback ==
    /\ second.pc = "mock"
    /\ IF ~Truthy(second.text)
       THEN second' = [second EXCEPT !.pc = "write_open",
                                     !.text = generate_mock_response(second.data)]
       ELSE second' = [second EXCEPT !.pc = "write_open"]
    /\ UNCHANGED <<botVars, requests, responses, prodVars, consVars, running, QWEN_CODE_API_URL>>

\* The completed record the second process builds.
Second_ResponseData ==
    [id |-> second.cur, user_id |-> Get(second.data, "user_id", "unknown"),
     response |-> second.text, timestamp |-> "ts", status |-> "completed"]

\* The error record the second process builds.
Second_ErrorData ==
    [id |-> second.cur, error |-> second.exc, timestamp |-> "ts", status |-> "error"]

\* The second process is back in the for loop of monitor_queue.
Second_Return(wrote) ==
    [second EXCEPT !.pc = "for", !.cur = 0, !.data = Unbound, !.text = None,
                   !.exc = None, !.wrote = wrote]

Second_WriteResponseOpen ==
    /\ second.pc = "write_open"
    /\ responses' = [responses EXCEPT ![second.cur] = Partial]
    /\ second' = [second EXCEPT !.pc = "write_dump"]
    /\ UNCHANGED <<botVars, requests, prodVars, consVars, running, QWEN_CODE_API_URL>>

Second_WriteResponseDump ==
    /\ second.pc = "write_dump"
    /\ responses' = [responses EXCEPT ![second.cur] = Json(Second_ResponseData)]
    /\ second' = [second EXCEPT !.pc = "unlink", !.wrote = @ \cup {second.cur}]
    /\ UNCHANGED <<botVars, requests, prodVars, consVars, running, QWEN_CODE_API_URL>>

Second_UnlinkRequest ==
    /\ second.pc = "unlink"
    /\ requests' = [requests EXCEPT ![second.cur] = Absent]
    /\ second' = Second_Return(second.wrote)
    /\ UNCHANGED <<botVars, responses, prodVars, consVars, running, QWEN_CODE_API_URL>>

Second_WriteErrorOpen ==
    /\ second.pc = "error_open"
    /\ responses' = [responses EXCEPT ![second.cur] = Partial]
    /\ second' = [second EXCEPT !.pc = "error_dump"]
    /\ UNCHANGED <<botVars, requests, prodVars, consVars, running, QWEN_CODE_API_URL>>

Second_WriteErrorDump ==
    /\ second.pc = "error_dump"
    /\ responses' = [responses EXCEPT ![second.cur] = Json(Second_ErrorData)]
    /\ second' = Second_Return(second.wrote \cup {second.cur})
    /\ UNCHANGED <<botVars, requests, prodVars, consVars, running, QWEN_CODE_API_URL>>

SecondConsumerStep ==
    \/ Second_MonitorWhile
    \/ Second_MonitorFor
    \/ Second_ReadRequest
    \/ Second_TryCli
    \/ Second_TryApi
    \/ Second_Fallback
    \/ Second_WriteResponseOpen
    \/ Second_WriteResponseDump
    \/ Second_UnlinkRequest
    \/ Second_WriteErrorOpen
    \/ Second_WriteErrorDump

\* One producer run and two consumer processes; no foreign file, no API URL,
\* no signal.
NextTwoConsumers ==
    \/ \E p \in Producers : ProducerStep(p)
    \/ ConsumerStep
    \/ SecondConsumerStep

TwoConsumers == InitEmptyQueue /\ [][NextTwoConsumers]_vars

\* Two runs of test_queue_to_qwen side by side against the one consumer.
NextTwoProducers ==
    \/ Next
    \/ ProducerStep(SecondProducer)

TwoProducers == InitEmptyQueue /\ [][NextTwoProducers]_vars

\* ============================================================ booking bot
\* ------------------------------------------------------------ database.py
\* The row create_appointment inserts; created_at is CURRENT_TIMESTAMP,
\* reminder_sent and status take their column defaults.
NewRow(user_id, service_key, service_name, appointment_date, appointment_time) ==
    [user_id |-> user_id, service_key |-> service_key, service_name |-> service_name,
     appointment_date |-> appointment_date, appointment_time |-> appointment_time,
     created_at |-> now, reminder_sent |-> 0, status |-> "active"]

\* Database.create_appointment: a plain INSERT; the new row id is the next one.
create_appointment(user_id, service_key, service_name, appointment_date, appointment_time) ==
    Append(appointments,
           NewRow(user_id, service_key, service_name, appointment_date, appointment_time))

\* Database.is_slot_booked: COUNT(*) of the active rows of the slot > 0
is_slot_booked(date, time) ==
    Cardinality({i \in 1..Len(appointments) :
                   /\ appointments[i].appointment_date = date
                   /\ appointments[i].appointment_time = time
                   /\ appointments[i].status = "active"}) > 0

\* Mutant of CancelRows: the UPDATE matches the row id alone.
CancelRows_AnyUser(appointment_id, user_id) ==
    {i \in 1..Len(appointments) : i = appointment_id}

\* Rows the UPDATE of Database.cancel_appointment matches: `if user_id:`
\* adds "AND user_id = ?".
CancelRows(appointment_id, user_id) ==
    {i \in 1..Len(appointments) :
       /\ i = appointment_id
       /\ (user_id # 0 => appointments[i].user_id = user_id)}

\* Database.cancel_appointment: the table after the UPDATE, and the value
\* returned, rowcount > 0.
Database_cancel_appointment(appointment_id, user_id) ==
    [table |-> IF CancelRows(appointment_id, user_id) # {}
               THEN [appointments EXCEPT ![appointment_id].status = "cancelled"]
               ELSE appointments,
     success |-> Cardinality(CancelRows(appointment_id, user_id)) > 0]

\* The WHERE clause of Database.get_appointments_for_reminder
ReminderRow(i, reminder_date, reminder_hour) ==
    /\ appointments[i].appointment_date = reminder_date
    /\ BETWEEN(appointments[i].appointment_time, reminder_hour, reminder_hour)
    /\ appointments[i].status = "active"
    /\ appointments[i].reminder_sent = 0

\* Database.get_appointments_for_reminder(target_time): the ids of the rows
\* returned, in row order. The clock of the model stays within Today.
get_appointments_for_reminder(target_time) ==
    LET reminder_date == Today
        reminder_hour == strftime_H00(target_time)
        Row(i) == ReminderRow(i, reminder_date, reminder_hour)
    IN  SelectSeq([i \in 1..Len(appointments) |-> i], Row)

\* Database.mark_reminder_sent
mark_reminder_sent(appointment_id) ==
    [appointments EXCEPT ![appointment_id].reminder_sent = 1]

\* ----------------------------------------------------- booking handlers
\* start_booking: state.clear(), then set_state(selecting_service)
start_booking(u) ==
    /\ fsm_data' = [fsm_data EXCEPT ![u] = EmptyData]
    /\ fsm_state' = [fsm_state EXCEPT ![u] = "selecting_service"]
    /\ UNCHANGED <<queueVars, now, appointments, bpc, last_cancel, rpc, appts, selected,
                   reminders, panel, last_admin>>

\* service_selected: callback data "svc_<key>"; an unknown key is refused.
service_selected(u) ==
    /\ \E service_key \in DOMAIN SERVICES \cup {"nosuch"} :
         IF service_key \notin DOMAIN SERVICES
         THEN UNCHANGED <<fsm_data, fsm_state>>
         ELSE /\ fsm_data' = [fsm_data EXCEPT ![u] =
                     update_data(@, [service_key |-> service_key,
                                     service_name |-> SERVICES[service_key].name])]
              /\ fsm_state' = [fsm_state EXCEPT ![u] = "selecting_date"]
    /\ UNCHANGED <<queueVars, now, appointments, bpc, last_cancel, rpc, appts, selected,
                   reminders, panel, last_admin>>

\* date_selected: callback data "date_<date>"; a day outside WORK_DAYS is
\* refused.
date_selected(u) ==
    /\ \E date \in {Today, Sunday} :
         IF weekday(date) \notin WORK_DAYS
         THEN UNCHANGED <<fsm_data, fsm_state>>
         ELSE /\ fsm_data' = [fsm_data EXCEPT ![u] =
                     update_data(@, [appointment_date |-> date])]
              /\ fsm_state' = [fsm_state EXCEPT ![u] = "selecting_time"]
    /\ UNCHANGED <<queueVars, now, appointments, bpc, last_cancel, rpc, appts, selected,
                   reminders, panel, last_admin>>

\* time_selected: callback data "time_<time>". The time is stored first;
\* strptime of a missing date then raises and the state is not advanced.
time_selected(u) ==
    /\ \E time \in get_times_keyboard :
         fsm_data' = [fsm_data EXCEPT ![u] = update_data(@, [appointment_time |-> time])]
    /\ fsm_state' = [fsm_state EXCEPT ![u] =
                        IF "appointment_date" \in DOMAIN fsm_data[u]
                        THEN "confirming" ELSE @]
    /\ UNCHANGED <<queueVars, now, appointments, bpc, last_cancel, rpc, appts, selected,
                   reminders, panel, last_admin>>

\* all([service_key, service_name, date, time]) on the data of user u
Complete(data) ==
    /\ Truthy(Get(data, "service_key", None))
    /\ Truthy(Get(data, "service_name", None))
    /\ Truthy(Get(data, "appointment_date", None))
    /\ Truthy(Get(data, "appointment_time", None))

\* Mutant of confirm_booking: the appointment is created without asking
\* whether the slot is taken.
confirm_booking_NoSlotCheck(u) ==
    /\ bpc[u] = "idle"
    /\ LET data == fsm_data[u]
       IN  IF ~Complete(data)
           THEN /\ bpc' = [bpc EXCEPT ![u] = "clear"]
                /\ UNCHANGED appointments
           ELSE /\ Len(appointments) < MaxAppointments
                /\ appointments' = create_appointment(u, data.service_key, data.service_name,
                                                      data.appointment_date,
                                                      data.appointment_time)
                /\ bpc' = [bpc EXCEPT ![u] = "clear"]
    /\ UNCHANGED <<queueVars, now, fsm_state, fsm_data, last_cancel, rpc, appts, selected,
                   reminders, panel, last_admin>>

\* Mutant of confirm_booking: the appointment is created from whatever the
\* data holds.
confirm_booking_NoDataCheck(u) ==
    /\ bpc[u] = "idle"
    /\ LET data == fsm_data[u]
           date == Get(data, "appointment_date", None)
           time == Get(data, "appointment_time", None)
       IN  IF is_slot_booked(date, time)
           THEN UNCHANGED <<bpc, appointments>>
           ELSE /\ Len(appointments) < MaxAppointments
                /\ appointments' = create_appointment(u, Get(data, "service_key", None),
                                                      Get(data, "service_name", None),
                                                      date, time)
                /\ bpc' = [bpc EXCEPT ![u] = "clear"]
    /\ UNCHANGED <<queueVars, now, fsm_state, fsm_data, last_cancel, rpc, appts, selected,
                   reminders, panel, last_admin>>

\* confirm_booking from `data = await state.get_data()` up to its next
\* await: the completeness check, db.is_slot_booked and db.create_appointment
\* are synchronous calls with no await between them. With incomplete data
\* or a created appointment the handler goes on to state.clear(); with a
\* taken slot it returns without clearing.
confirm_booking(u) ==
    /\ bpc[u] = "idle"
    /\ LET data == fsm_data[u]
       IN  IF ~Complete(data)
           THEN /\ bpc' = [bpc EXCEPT ![u] = "clear"]
                /\ UNCHANGED appointments
           ELSE IF is_slot_booked(data.appointment_date, data.appointment_time)
           THEN UNCHANGED <<bpc, appointments>>
           ELSE /\ Len(appointments) < MaxAppointments
                /\ appointments' = create_appointment(u, data.service_key, data.service_name,
                                                      data.appointment_date,
                                                      data.appointment_time)
                /\ bpc' = [bpc EXCEPT ![u] = "clear"]
    /\ UNCHANGED <<queueVars, now, fsm_state, fsm_data, last_cancel, rpc, appts, selected,
                   reminders, panel, last_admin>>

\* confirm_booking, after its messages: await state.clear()
confirm_booking_clear(u) ==
    /\ bpc[u] = "clear"
    /\ fsm_data' = [fsm_data EXCEPT ![u] = EmptyData]
    /\ fsm_state' = [fsm_state EXCEPT ![u] = None]
    /\ bpc' = [bpc EXCEPT ![u] = "idle"]
    /\ UNCHANGED <<queueVars, now, appointments, last_cancel, rpc, appts, selected,
                   reminders, panel, last_admin>>

\* cancel_appointment (handler): callback data "cancel_<id>" from user u;
\* the user sees the confirmation or "could not cancel".
cancel_appointment(u, appointment_id) ==
    /\ appointments' = Database_cancel_appointment(appointment_id, u).table
    /\ last_cancel' = IF Database_cancel_appointment(appointment_id, u).success
                       THEN "cancelled" ELSE "failed"
    /\ UNCHANGED <<queueVars, now, fsm_state, fsm_data, bpc, rpc, appts, selected,
                   reminders, panel, last_admin>>

\* -------------------------------------------------------- reminder task
\* send_reminders from the top of `while True` to its first await: the
\* query for target_time = now + 1 hour, then either the call of
\* bot.send_message for the first row or, with no row, asyncio.sleep(60).
send_reminders_query ==
    /\ rpc = "query"
    /\ LET target_time == now + 2
       IN  /\ appts' = get_appointments_for_reminder(target_time)
           /\ selected' = selected \cup
                  {get_appointments_for_reminder(target_time)[k] :
                     k \in 1..Len(get_appointments_for_reminder(target_time))}
    /\ rpc' = IF appts' = <<>> THEN "sleep" ELSE "sending"
    /\ UNCHANGED <<queueVars, now, appointments, fsm_state, fsm_data, bpc, last_cancel,
                   reminders, panel, last_admin>>

\* Mutant of send_reminders_sent: the row is not marked after the send.
send_reminders_sent_NoMark ==
    /\ rpc = "sending"
    /\ \E delivered \in BOOLEAN :
         IF delivered
         THEN /\ reminders' = [reminders EXCEPT ![Head(appts)] = IF @ < 2 THEN @ + 1 ELSE @]
              /\ UNCHANGED appointments
         ELSE UNCHANGED <<reminders, appointments>>
    /\ appts' = Tail(appts)
    /\ rpc' = IF Tail(appts) = <<>> THEN "sleep" ELSE "sending"
    /\ UNCHANGED <<queueVars, now, fsm_state, fsm_data, bpc, last_cancel, selected,
                   panel, last_admin>>

\* The awaited bot.send_message returns or raises: delivered, the row is
\* marked at once; failed, the error is logged and the row stays unmarked.
\* Either way the for loop goes on to the next row of its list, or to the
\* sleep.
send_reminders_sent ==
    /\ rpc = "sending"
    /\ \E delivered \in BOOLEAN :
         IF delivered
         THEN /\ reminders' = [reminders EXCEPT ![Head(appts)] = IF @ < 2 THEN @ + 1 ELSE @]
              /\ appointments' = mark_reminder_sent(Head(appts))
         ELSE UNCHANGED <<reminders, appointments>>
    /\ appts' = Tail(appts)
    /\ rpc' = IF Tail(appts) = <<>> THEN "sleep" ELSE "sending"
    /\ UNCHANGED <<queueVars, now, fsm_state, fsm_data, bpc, last_cancel, selected,
                   panel, last_admin>>

\* asyncio.sleep(60) returns: a minute has passed, which may have taken
\* the clock into the next half hour.
send_reminders_sleep ==
    /\ rpc = "sleep"
    /\ \E passed \in {0, 1} :
         /\ now + passed <= LastNow
         /\ now' = now + passed
    /\ rpc' = "query"
    /\ UNCHANGED <<queueVars, appointments, fsm_state, fsm_data, bpc, last_cancel, appts,
                   selected, reminders, panel, last_admin>>

BookingStep(u) ==
    \/ start_booking(u)
    \/ service_selected(u)
    \/ date_selected(u)
    \/ time_selected(u)
    \/ confirm_booking(u)
    \/ confirm_booking_clear(u)
    \/ \E appointment_id \in 1..MaxAppointments : cancel_appointment(u, appointment_id)

ReminderStep ==
    \/ send_reminders_query
    \/ send_reminders_sent
    \/ send_reminders_sleep

NextBooking == \E u \in Users : BookingStep(u)

\* The bot process with the handlers of its users, within one half hour;
\* the queue is idle.
Booking == InitEmptyQueue /\ [][NextBooking]_vars

\* The rows a table can hold when the bot is started again: booked by the
\* users on an earlier day for a slot of Today, some cancelled since, none
\* reminded of yet.
BookedRows ==
    [user_id : Users, service_key : DOMAIN SERVICES, service_name : {SERVICES.haircut.name},
     appointment_date : {Today}, appointment_time : get_times_keyboard,
     created_at : {0}, reminder_sent : {0}, status : {"active", "cancelled"}]

\* The tables confirm_booking and cancel_appointment can have left behind:
\* no two active rows for one slot.
BookedTables ==
    {t \in UNION {[1..n -> BookedRows] : n \in 0..MaxAppointments} :
       \A i, j \in DOMAIN t :
          (/\ i # j
           /\ t[i].status = "active"
           /\ t[j].status = "active") => t[i].appointment_time # t[j].appointment_time}

InitReminders ==
    /\ InitQueue
    /\ \A x \in AllIds : requests[x] = Absent
    /\ QWEN_CODE_API_URL = ""
    /\ appointments \in BookedTables
    /\ InitBotProcess

NextReminders ==
    \/ ReminderStep
    \/ \E u \in Users, appointment_id \in 1..MaxAppointments :
          cancel_appointment(u, appointment_id)

\* The reminder task of a bot started on a table of earlier bookings, with
\* users cancelling while it runs.
Reminders == InitReminders /\ [][NextReminders]_vars

\* ------------------------------------------------------- admin handlers
\* What the admin handlers leave alone.
bookVars == <<now, appointments, bpc, last_cancel, rpc, appts, selected, reminders>>

\* state.clear() of user u, then set_state(s)
ClearAndSet(u, s) ==
    /\ fsm_data' = [fsm_data EXCEPT ![u] = EmptyData]
    /\ fsm_state' = [fsm_state EXCEPT ![u] = s]

\* An admin action is carried out for user u.
Execute(action, u) == last_admin' = [action |-> action, user_id |-> u]

\* cmd_admin: /admin from user u; the one handler that compares the sender
\* with ADMIN_ID.
cmd_admin(u) ==
    /\ IF u # ADMIN_ID
       THEN UNCHANGED panel
       ELSE panel' = panel \cup {u}
    /\ UNCHANGED <<queueVars, bookVars, fsm_state, fsm_data, last_admin>>

\* admin_restart_confirm: callback data "restart_confirm" from user u. A
\* new process is started and this one exits: conversations and the
\* position of the reminder task are lost, the database stays.
admin_restart_confirm(u) ==
    /\ Execute("restart", u)
    /\ fsm_state' = [v \in Users |-> None]
    /\ fsm_data' = [v \in Users |-> EmptyData]
    /\ bpc' = [v \in Users |-> "idle"]
    /\ rpc' = "query"
    /\ appts' = <<>>
    /\ UNCHANGED <<queueVars, now, appointments, last_cancel, selected, reminders, panel>>

\* admin_add_portfolio: callback data "admin_add_portfolio"
admin_add_portfolio(u) ==
    /\ ClearAndSet(u, "portfolio_photo")
    /\ UNCHANGED <<queueVars, bookVars, panel, last_admin>>

\* save_portfolio_photo: a photo from a user in state portfolio_photo
save_portfolio_photo(u) ==
    /\ fsm_state[u] = "portfolio_photo"
    /\ fsm_data' = [fsm_data EXCEPT ![u] = update_data(@, [photo_id |-> "photo"])]
    /\ fsm_state' = [fsm_state EXCEPT ![u] = "portfolio_caption"]
    /\ UNCHANGED <<queueVars, bookVars, panel, last_admin>>

\* save_portfolio_caption and save_portfolio_item: a text from a user in
\* state portfolio_caption; db.add_portfolio_item, then state.clear().
save_portfolio_caption(u) ==
    /\ fsm_state[u] = "portfolio_caption"
    /\ "photo_id" \in DOMAIN fsm_data[u]
    /\ Execute("add_portfolio_item", u)
    /\ ClearAndSet(u, None)
    /\ UNCHANGED <<queueVars, bookVars, panel>>

\* admin_service_add_start: callback data "admin_service_add"
admin_service_add_start(u) ==
    /\ ClearAndSet(u, "service_name")
    /\ UNCHANGED <<queueVars, bookVars, panel, last_admin>>

\* admin_service_add_key: a text from a user in state service_name
admin_service_add_key(u) ==
    /\ fsm_state[u] = "service_name"
    /\ fsm_data' = [fsm_data EXCEPT ![u] = update_data(@, [service_key |-> "new_service"])]
    /\ fsm_state' = [fsm_state EXCEPT ![u] = "service_description"]
    /\ UNCHANGED <<queueVars, bookVars, panel, last_admin>>

\* admin_service_add_name: a text from a user in state service_description
admin_service_add_name(u) ==
    /\ fsm_state[u] = "service_description"
    /\ fsm_data' = [fsm_data EXCEPT ![u] = update_data(@, [service_name |-> "New service"])]
    /\ fsm_state' = [fsm_state EXCEPT ![u] = "service_duration"]
    /\ UNCHANGED <<queueVars, bookVars, panel, last_admin>>

\* admin_service_add_duration: a text from a user in state
\* service_duration; a text that is no number is asked for again.
admin_service_add_duration(u) ==
    /\ fsm_state[u] = "service_duration"
    /\ \E text \in {"45", "soon"} :
         IF text = "45"
         THEN /\ fsm_data' = [fsm_data EXCEPT ![u] =
                     update_data(@, [service_duration |-> text])]
              /\ fsm_state' = [fsm_state EXCEPT ![u] = "service_price"]
         ELSE UNCHANGED <<fsm_data, fsm_state>>
    /\ UNCHANGED <<queueVars, bookVars, panel, last_admin>>

\* admin_service_add_price: a text from a user in state service_price; a
\* number makes db.add_service insert the service, then state.clear().
admin_service_add_price(u) ==
    /\ fsm_state[u] = "service_price"
    /\ \E text \in {"900", "cheap"} :
         IF text = "900"
         THEN /\ Execute("add_service", u)
              /\ ClearAndSet(u, None)
         ELSE UNCHANGED <<fsm_data, fsm_state, last_admin>>
    /\ UNCHANGED <<queueVars, bookVars, panel>>

\* admin_service_edit_select: callback data "admin_edit_<key>"
admin_service_edit_select(u) ==
    /\ \E service_key \in DOMAIN SERVICES \cup {"nosuch"} :
         IF service_key \notin DOMAIN SERVICES
         THEN UNCHANGED <<fsm_data, fsm_state>>
         ELSE /\ fsm_data' = [fsm_data EXCEPT ![u] =
                     update_data(@, [edit_service_key |-> service_key])]
              /\ fsm_state' = [fsm_state EXCEPT ![u] = "edit_field"]
    /\ UNCHANGED <<queueVars, bookVars, panel, last_admin>>

\* admin_edit_field_select: callback data "edit_field_<field>"
admin_edit_field_select(u) ==
    /\ IF Get(fsm_data[u], "edit_service_key", None) \notin DOMAIN SERVICES
       THEN UNCHANGED <<fsm_data, fsm_state>>
       ELSE /\ fsm_data' = [fsm_data EXCEPT ![u] = update_data(@, [edit_field |-> "price"])]
            /\ fsm_state' = [fsm_state EXCEPT ![u] = "edit_value"]
    /\ UNCHANGED <<queueVars, bookVars, panel, last_admin>>

\* admin_edit_save: a text from a user in state edit_value. A number is
\* written into config.py; another text makes int() raise. Both paths end
\* in state.clear().
admin_edit_save(u) ==
    /\ fsm_state[u] = "edit_value"
    /\ \E text \in {"1700", "more"} :
         IF text = "1700" /\ Get(fsm_data[u], "edit_service_key", None) \in DOMAIN SERVICES
         THEN Execute("edit_service", u)
         ELSE UNCHANGED last_admin
    /\ ClearAndSet(u, None)
    /\ UNCHANGED <<queueVars, bookVars, panel>>

\* admin_service_delete_confirm: callback data "admin_delete_<key>"
admin_service_delete_confirm(u) ==
    /\ \E service_key \in DOMAIN SERVICES \cup {"nosuch"} :
         IF service_key \notin DOMAIN SERVICES
         THEN UNCHANGED fsm_data
         ELSE fsm_data' = [fsm_data EXCEPT ![u] =
                 update_data(@, [delete_service_key |-> service_key,
                                 delete_service_name |-> SERVICES[service_key].name])]
    /\ UNCHANGED <<queueVars, bookVars, fsm_state, panel, last_admin>>

\* admin_service_delete_execute: callback data "delete_confirm_yes". The
\* block of the service is cut out of config.py when the key chosen before
\* is found there; state.clear() either way.
admin_service_delete_execute(u) ==
    /\ IF Get(fsm_data[u], "delete_service_key", None) \in DOMAIN SERVICES
       THEN Execute("delete_service", u)
       ELSE UNCHANGED last_admin
    /\ ClearAndSet(u, None)
    /\ UNCHANGED <<queueVars, bookVars, panel>>

AdminStep(u) ==
    \/ cmd_admin(u)
    \/ admin_restart_confirm(u)
    \/ admin_add_portfolio(u)
    \/ save_portfolio_photo(u)
    \/ save_portfolio_caption(u)
    \/ admin_service_add_start(u)
    \/ admin_service_add_key(u)
    \/ admin_service_add_name(u)
    \/ admin_service_add_duration(u)
    \/ admin_service_add_price(u)
    \/ admin_service_edit_select(u)
    \/ admin_edit_field_select(u)
    \/ admin_edit_save(u)
    \/ admin_service_delete_confirm(u)
    \/ admin_service_delete_execute(u)

\* Updates reach the dispatcher from every user: the filters of the admin
\* handlers look at the callback data or at the state, not at the sender.
NextAdmin == \E u \in Users : AdminStep(u)

Admin == InitEmptyQueue /\ [][NextAdmin]_vars

C2_Timeout ==
    /\ [](\A p \in Producers :
            /\ waited[p] <= MaxWait
            /\ ppc[p] = "returned_false"
                 => (waited[p] = MaxWait /\ requests[p] = Absent))
    /\ \A p \in Producers :
         (ppc[p] = "poll") ~> (ppc[p] = "returned_false" \/ responses[p] # Absent)

\* A timeout of a request the consumer never touched.
C2_Witness ==
    \E p \in Producers :
        /\ ppc[p] = "returned_false"
        /\ waited[p] = MaxWait
        /\ p \notin processed
        /\ written[p] = None
        /\ responses[p] = Absent
        /\ requests[p] = Absent

\* ------------------------------------------------- provider claims (C3-C5)
\* The step of process_request that completes the response file.
Wrote == cpc = "write_dump" /\ cpc' = "unlink"

\* The completed record for the current request with the given text.
Completed(text) ==
    Json([id |-> cur, user_id |-> Get(request_data, "user_id", "unknown"),
          response |-> text, timestamp |-> "ts", status |-> "completed"])

Configured(provider) == provider # "api" \/ QWEN_CODE_API_URL # ""

\* The providers were tried in the given order, each one only because the
\* ones before it gave no answer, and the record written carries what the
\* last one tried returned.
PriorityHolds(order) ==
    /\ Len(calls) >= 1
    /\ Len(calls) <= Len(order)
    /\ \A i \in DOMAIN calls : calls[i].provider = order[i]
    /\ \A i \in 1..(Len(calls) - 1) : ~Truthy(calls[i].returned)
    /\ Truthy(calls[Len(calls)].returned)
    /\ responses'[cur] = Completed(calls[Len(calls)].returned)

NoApiAnswer == \A i \in DOMAIN calls : calls[i].provider = "api" => calls[i].outcome # "http200"

\* C3 as stated: the order is remote endpoint (if configured), subprocess,
\* fallback.
C3_RemoteFirst ==
    [][Wrote => PriorityHolds(SelectSeq(<<"api", "cli", "mock">>, Configured))]_vars

\* C3 (provider priority), amended: the order is subprocess, remote endpoint
\* (if configured), fallback, and the response text is the result of the
\* first provider in that order that returns a non-empty answer.
C3_CliFirst ==
    [][Wrote => PriorityHolds(SelectSeq(<<"cli", "api", "mock">>, Configured))]_vars

\* The CLI gave nothing, the API answered, and its answer was written.
C3_Witness ==
    /\ cpc = "unlink"
    /\ Len(calls) = 2
    /\ calls[1].provider = "cli" /\ ~Truthy(calls[1].returned)
    /\ calls[2].provider = "api" /\ calls[2].returned = "api answer"
    /\ responses[cur] = Completed("api answer")

ErrStep == cpc = "error_dump" /\ cpc' # cpc

IsError(content) == content.kind = "json" /\ content.data.status = "error"
IsCompleted(content) == content.kind = "json" /\ content.data.status = "completed"

\* C6 (error path consumes the record): when processing a request file
\* fails, an error response with a diagnostic is written for that id and the
\* request file of that id is gone when process_request returns.
C6_ErrorConsumes ==
    [][ErrStep => /\ responses'[cur] = Json(ErrorData)
                  /\ ErrorData.error # None
                  /\ requests'[cur] = Absent]_vars

\* C7 (at most one sweep per request): process_request is never started for
\* an id it has already been started for.
C7_AtMostOnce ==
    [][(cpc = "for" /\ cpc' = "open") => cur' \notin processed]_vars

C9_EveryRequestAnswered ==
    \A x \in AllIds :
        (x \in request_files) ~> (responses[x].kind = "json" \/ ~running)

\* Both the producer's request and a malformed file have their responses
\* while the consumer is still running.
C9_Witness ==
    /\ running
    /\ \E p \in Producers : p \in processed /\ IsCompleted(responses[p])
    /\ \E b \in BadIds : b \in processed /\ IsError(responses[b])

\* C10 (write before delete): the consumer removes a request file only in the
\* cleanup step of the request it is processing, after it has written the
\* completed response for that id.
C10_WriteBeforeDelete ==
    [][\A x \in AllIds :
          (cpc' # cpc /\ requests'[x] # requests[x])
            => /\ cpc = "unlink"
               /\ x = cur
               /\ requests'[x] = Absent
               /\ written[x] = response_text
               /\ Truthy(written[x])]_vars

\* The consumer has answered and removed the request while its producer is
\* still polling.
C10_Witness ==
    \E p \in Producers :
        /\ ppc[p] = "poll"
        /\ cpc = "for"
        /\ Truthy(written[p])
        /\ requests[p] = Absent
        /\ IsCompleted(responses[p])

\* ------------------------------------------------------- producer cleanup
\* C11 (idempotent cleanup): no unlink of the producer raises, whatever the
\* consumer did between the producer's existence check and its unlink.
C11_CleanupNeverRaises ==
    [][\A p \in Producers :
          ppc[p] \in {"timeout_unlink", "req_unlink", "resp_unlink"}
            => ppc'[p] # "raised"]_vars

\* C12 (error status is an answer): a producer that has read a response
\* record with status error neither raises nor reports a timeout, and the text
\* it returns is the record's diagnostic.
C12_ErrorIsAnswer ==
    \A p \in Producers :
        pdata[p].status = "error"
          => /\ ppc[p] \notin {"raised", "returned_false"}
             /\ presult[p] = pdata[p].error
             /\ Truthy(presult[p])

\* C13 (orphans only through timeout): once a producer has read the response
\* for its id and its call has ended, no response file for that id is on disk.
C13_NoOrphanAfterConsume ==
    \A p \in Producers :
        (pdata[p].status # None /\ ppc[p] \in {"returned_true", "raised"})
          => responses[p] = Absent

\* ----------------------------------------------------------- the loop
\* C14 (graceful shutdown): process_request is never started while the
\* running flag is false, and when the loop has exited no request is in
\* progress and every request it started has had its response written.
C14_GracefulShutdown ==
    /\ [][(cpc' = "open" /\ cpc # "open") => running]_vars
    /\ [](cpc = "stopped" => (~running /\ cur = 0 /\ processed \subseteq answered))

\* The loop has exited after answering the producer's request, which was in
\* progress or pending when the signal came, without starting a file that
\* was in the directory all along.
C14_Witness ==
    /\ cpc = "stopped"
    /\ \E p \in Producers : p \in answered /\ IsCompleted(responses[p])
    /\ \E b \in BadIds : requests[b] # Absent /\ b \notin processed

\* C16 (sequential consumer): at most the current request is in progress:
\* every other request process_request was started for has had its response
\* or error response written, and between two calls no request is current.
C16_Sequential ==
    /\ (processed \ answered) \subseteq (IF cur = 0 THEN {} ELSE {cur})
    /\ (cur = 0) <=> (cpc \in {"while", "for", "stopped"})

\* A second file is being processed after the first one's response was
\* written.
C16_Witness ==
    /\ cur # 0
    /\ cur \notin answered
    /\ cpc = "cli"
    /\ \E y \in AllIds : y # cur /\ y \in answered /\ IsError(responses[y])

\* -------------------------------------------------------- response records
\* C19 (response record shape): every complete response record has the
\* fields id, user_id, response, timestamp and status.
C19_ResponseShape ==
    \A x \in AllIds :
        responses[x].kind = "json"
          => {"id", "user_id", "response", "timestamp", "status"}
                \subseteq DOMAIN responses[x].data

\* C20 (status and error detail): every complete response record has status
\* completed or error, and it has an error detail exactly when its status is
\* error.
C20_StatusAndDetail ==
    \A x \in AllIds :
        responses[x].kind = "json"
          => /\ responses[x].data.status \in {"completed", "error"}
             /\ ("error" \in DOMAIN responses[x].data)
                   <=> (responses[x].data.status = "error")
             /\ responses[x].data.status = "error"
                   => Truthy(responses[x].data.error)

\* A completed record and an error record are on disk together.
C20_Witness ==
    /\ \E x \in AllIds : IsCompleted(responses[x])
                          /\ "error" \notin DOMAIN responses[x].data
    /\ \E y \in AllIds : IsError(responses[y])
                          /\ responses[y].data.error = "JSONDecodeError"

\* ------------------------------------------------------- two producers
\* The producer call of task q has ended.
Ended(q) == ppc[q] \in {"returned_true", "returned_false", "raised"}

\* C17 (independent producer waits): a call that has not ended can always
\* take its next step, whatever the other call is doing, and a step of one
\* call changes nothing of the other call's position, wait count or result.
C17_IndependentWaits ==
    /\ [](\A q \in Tasks : ~Ended(q) => ENABLED ProducerStep(q))
    /\ [][\A p, q \in Tasks :
            (p # q /\ ppc'[p] # ppc[p])
              => /\ ppc'[q] = ppc[q]
                 /\ waited'[q] = waited[q]
                 /\ presult'[q] = presult[q]]_vars

\* The first call has polled and is still waiting with no response on disk
\* while the second call has returned its completed answer.
C17_Witness ==
    /\ ppc[1] = "poll"
    /\ waited[1] >= 1
    /\ responses[1] = Absent
    /\ ppc[SecondProducer] = "returned_true"
    /\ pdata[SecondProducer].status = "completed"
    /\ presult[SecondProducer] = written[SecondProducer]

\* The fallback text for the request of task y.
MockOf(y) == generate_mock_response(TestRequest(y, PromptOf(y)))

\* C18 (per-id correlation): the record in the response file of id x has
\* id x, and it is not the answer computed from another task's request; the
\* record a waiting call has read carries that call's id and its text is not
\* the answer to the other call's request.
C18_PerIdCorrelation ==
    /\ \A x \in AllIds :
          responses[x].kind = "json"
            => /\ responses[x].data.id = x
               /\ IsCompleted(responses[x])
                    => /\ responses[x].data.user_id = TEST_USER_ID
                       /\ \A y \in Tasks \ {x} : responses[x].data.response # MockOf(y)
    /\ \A p \in Tasks :
          pdata[p].status # None
            => /\ pdata[p].id = p
               /\ \A y \in Tasks \ {p} : presult[p] # MockOf(y)

\* Both calls have read the fallback answer to their own prompt.
C18_Witness ==
    /\ \A p \in Tasks : /\ pdata[p].status = "completed"
                        /\ presult[p] = MockOf(p)
                        /\ Ended(p)
    /\ MockOf(1) # MockOf(SecondProducer)

\* ------------------------------------------------------- two consumers
\* C15 (two-consumer race): nothing keeps a second consumer from working on
\* a request the first one is working on, and whichever of them ends its
\* write of the response file last leaves its own record there: when a
\* consumer gets to its cleanup, the response file of its request holds the
\* record that consumer built, whatever was in the file before.
C15_LastWriterWins ==
    /\ [][(cpc' = "unlink" /\ cpc # "unlink")
            => responses'[cur] = Json(ResponseData)]_vars
    /\ [][(second'.pc = "unlink" /\ second.pc # "unlink")
            => responses'[second.cur] = Json(Second_ResponseData)]_vars

\* Both consumers have read the same request and written a response for it
\* before either has deleted the request file; their answers differ and the
\* file holds the one of the second process, written after the first one's.
C15_Witness ==
    /\ cpc = "unlink"
    /\ second.pc = "unlink"
    /\ cur = second.cur
    /\ requests[cur].kind = "json"
    /\ cur \in answered
    /\ cur \in second.wrote
    /\ written[cur] # second.text
    /\ responses[cur] = Json(Second_ResponseData)

\* ------------------------------------------------------ files and frames
\* C22 (who touches response files): a response file is created, filled or
\* overwritten only by a step of the consumer working on that id, and it is
\* removed only by the cleanup of the producer of that id; in particular a
\* response whose producer has ended stays in the directory.
C22_ResponseFileOwners ==
    [][\A x \in AllIds :
          /\ (responses'[x] # responses[x] /\ responses'[x] # Absent)
                => (cur = x /\ cpc' # cpc /\ ppc' = ppc)
          /\ (responses'[x] # responses[x] /\ responses'[x] = Absent)
                => (x \in Producers /\ ppc[x] = "resp_unlink" /\ cpc' = cpc)
          /\ (x \in Producers /\ Ended(x) /\ responses[x] # Absent)
                => responses'[x] # Absent]_vars

\* The producer has timed out and returned; the response written afterwards
\* is in the directory.
C22_Witness ==
    \E p \in Producers :
        /\ ppc[p] = "returned_false"
        /\ IsCompleted(responses[p])
        /\ cur = 0

\* C23 (abandoned requests): a producer that has timed out and deleted its
\* request never gets an error response caused by the consumer opening the
\* deleted file, i.e. a consumer that had only listed the file writes nothing.
C23_NoResponseForUnopened ==
    \A p \in Producers :
        (ppc[p] = "returned_false" /\ IsError(responses[p]))
          => responses[p].data.error # "FileNotFoundError"

\* C26 (partial output on CLI error): when the subprocess exited with a
\* nonzero code, no other provider is asked, and the response written is the
\* completed record with the stripped standard output or, if that is empty,
\* with "Error: <stderr>".
C26_PartialOutputOnCliError ==
    [][(Wrote /\ calls[1].outcome = "nonzero")
          => /\ Len(calls) = 1
             /\ calls[1].returned \in {Strip("partial\n"), "Error: " \o "boom"}
             /\ responses'[cur] = Completed(calls[1].returned)]_vars

\* The subprocess failed without output and the "Error: <stderr>" text has
\* been written as a completed response.
C26_Witness ==
    /\ cpc = "unlink"
    /\ calls = <<Call("cli", "nonzero", "Error: boom")>>
    /\ written[cur] = "Error: boom"
    /\ IsCompleted(responses[cur])

\* C27 (remote provider gating): the API is called, or its import attempted,
\* only as the second provider, with a URL configured and after a CLI call
\* that returned no non-empty text; with no URL the call after such a CLI
\* result is the fallback.
C27_RemoteGating ==
    /\ \A i \in 1..Len(calls) :
          calls[i].provider = "api"
            => /\ QWEN_CODE_API_URL # ""
               /\ i = 2
               /\ ~Truthy(calls[1].returned)
    /\ exc = "ImportError"
          => (QWEN_CODE_API_URL # "" /\ Len(calls) = 1 /\ ~Truthy(calls[1].returned))
    /\ (QWEN_CODE_API_URL = "" /\ Len(calls) >= 2)
          => (calls[2].provider = "mock" /\ ~Truthy(calls[1].returned))

\* No URL: the executable was not found and the next provider is the fallback.
C27_Witness ==
    /\ QWEN_CODE_API_URL = ""
    /\ cpc = "write_open"
    /\ Len(calls) = 2
    /\ calls[1].outcome = "FileNotFoundError"
    /\ calls[2].provider = "mock"

\* C28 (frame of one item): a step of the consumer leaves the request and
\* response files of every id other than the current one as they are; of the
\* current id it can only remove the request file and write the response file.
C28_FrameOfOneItem ==
    [][cpc' # cpc
         => \A y \in AllIds :
              IF y = cur
              THEN /\ requests'[y] \in {requests[y], Absent}
                   /\ responses'[y] = responses[y] \/ responses'[y] # Absent
              ELSE /\ requests'[y] = requests[y]
                   /\ responses'[y] = responses[y]]_vars

\* One request has been answered and removed while another listed file and
\* an earlier response are still as they were.
C28_Witness ==
    /\ cpc = "for"
    /\ \E x \in Producers : x \in answered /\ requests[x] = Absent
                            /\ IsCompleted(responses[x])
    /\ \E y \in BadIds : y \in request_files /\ requests[y] = Garbage
                         /\ responses[y] = Absent

\* C29 (no partial response read): when the producer opens the response file
\* it has found, the file holds a complete record.
C29_NoPartialResponseRead ==
    \A p \in Producers : ppc[p] = "read" => responses[p].kind = "json"

\* C30 (no partial request read): the response of a producer's request is
\* never an error record saying the request file could not be parsed.
C30_NoPartialRequestRead ==
    \A p \in Producers :
        IsError(responses[p]) => responses[p].data.error # "JSONDecodeError"

\* ------------------------------------------------------------ termination
\* C24 (shutdown terminates): once the stop signal has set the flag, the
\* monitor loop eventually exits.
C24_ShutdownTerminates == (~running) ~> (cpc = "stopped")

\* The loop has exited after a subprocess call that was cut off by its time
\* bound.
C24_Witness ==
    /\ cpc = "stopped"
    /\ ~running
    /\ \E x \in AllIds : x \in answered /\ written[x] = TIMEOUT_TEXT

\* C25 (per-request termination): whenever the consumer is working on a
\* request file, it eventually is back in the loop of monitor_queue with no
\* request in progress.
C25_RequestTerminates == (cur # 0) ~> (cur = 0 /\ cpc \in {"for", "while", "stopped"})

\* The consumer is back in the for loop, with another file to go, after a
\* request it answered with the fallback text.
C25_Witness ==
    /\ cpc = "for"
    /\ cur = 0
    /\ running
    /\ request_files # {}
    /\ \E x \in answered : written[x] = generate_mock_response(TestRequest(x, PromptOf(x)))

\* --------------------------------------------------------- context window
\* C21 (context window): when the request in progress carries more than
\* HISTORY_WINDOW prior entries, the context handed to a provider by a call
\* is exactly the last HISTORY_WINDOW entries, oldest first.
C21_ContextWindow ==
    [][(calls' # calls /\ calls' # <<>> /\ cur # 0
          /\ calls'[Len(calls')].provider \in {"cli", "api"}
          /\ Len(request_data.history) > HISTORY_WINDOW)
         => context' = Turns(SubSeq(request_data.history,
                                    Len(request_data.history) - HISTORY_WINDOW + 1,
                                    Len(request_data.history)))]_vars

\* -------------------------------------------------------- completed text
\* C31 (completed means answered): every response record with status
\* "completed" carries a response text that is not empty.
C31_CompletedMeansAnswered ==
    \A x \in AllIds :
        IsCompleted(responses[x]) =>
            /\ responses[x].data.response # None
            /\ responses[x].data.response # ""

\* A provider returned the empty text for the producer's request, and the
\* completed record written for it carries the fallback text instead.
C31_Witness ==
    /\ cpc = "unlink"
    /\ cur \in Producers
    /\ \E i \in 1..Len(calls) : calls[i].returned = ""
    /\ IsCompleted(responses[cur])
    /\ responses[cur].data.response = MockOf(cur)

\* ============================================================ booking bot
\* Row i of the table is an active appointment.
Active(i) == appointments[i].status = "active"

\* C32 (one booking per slot): no two active appointments have the same
\* date and time, whatever the order in which the handlers of the users run.
C32_OneBookingPerSlot ==
    \A i, j \in 1..Len(appointments) :
        (/\ i # j
         /\ Active(i)
         /\ Active(j))
        => \/ appointments[i].appointment_date # appointments[j].appointment_date
           \/ appointments[i].appointment_time # appointments[j].appointment_time

\* A user's confirm_booking has created the appointment and is not finished
\* yet, while another user holds complete data for the same slot; the slot
\* had been booked and cancelled before.
C32_Witness ==
    \E u, v \in Users :
        /\ u # v
        /\ bpc[u] = "clear"
        /\ bpc[v] = "idle"
        /\ Len(appointments) = 2
        /\ ~Active(1)
        /\ Active(2)
        /\ appointments[2].user_id = u
        /\ appointments[1].appointment_time = appointments[2].appointment_time
        /\ Complete(fsm_data[v])
        /\ fsm_data[v].appointment_date = appointments[2].appointment_date
        /\ fsm_data[v].appointment_time = appointments[2].appointment_time

\* C33 (cancel only your own booking): a cancel_appointment handler run for
\* user u changes no row of another user, and when the id it is given is
\* the id of another user's appointment, the table stays as it is and the
\* user is told that the cancellation failed.
C33_CancelOnlyOwn ==
    [][\A u \in Users, id \in 1..MaxAppointments :
          cancel_appointment(u, id) =>
              /\ \A i \in 1..Len(appointments) :
                    appointments'[i] # appointments[i] => appointments[i].user_id = u
              /\ (id \in 1..Len(appointments) /\ appointments[id].user_id # u)
                    => (appointments' = appointments /\ last_cancel' = "failed")]_vars

\* Every id is the id of an active appointment of the first user, and the
\* latest cancel request was refused: it came from the other user.
C33_Witness ==
    /\ Len(appointments) = MaxAppointments
    /\ \A i \in 1..Len(appointments) : Active(i) /\ appointments[i].user_id = ADMIN_ID
    /\ last_cancel = "failed"

\* C34 (reminder at most once): no appointment has more than one delivered
\* reminder, and a row marked reminder_sent is in no list the reminder task
\* is still working through.
C34_ReminderAtMostOnce ==
    \A i \in 1..Len(appointments) :
        /\ reminders[i] <= 1
        /\ appointments[i].reminder_sent = 1 => \A k \in 1..Len(appts) : appts[k] # i

\* The reminder of an appointment has been delivered and marked, and the
\* task is at the top of a later iteration whose target hour is still the
\* hour of that appointment.
C34_Witness ==
    /\ rpc = "query"
    /\ \E i \in 1..Len(appointments) :
          /\ reminders[i] = 1
          /\ appointments[i].reminder_sent = 1
          /\ Active(i)
          /\ appointments[i].appointment_time = strftime_H00(now + 2)

\* C35 (no reminder for a cancelled booking): whenever a reminder is
\* delivered for an appointment, that appointment is active at that moment.
C35_NoReminderForCancelled ==
    [][\A i \in 1..Len(appointments) :
          reminders'[i] > reminders[i] => appointments[i].status = "active"]_vars

\* C36 (reminder coverage): an appointment that is still active when its
\* start time has come has been selected by the reminder query by then.
C36_ReminderCoverage ==
    \A i \in 1..Len(appointments) :
        (/\ Active(i)
         /\ appointments[i].appointment_date = Today
         /\ TextRank(appointments[i].appointment_time) <= now)
        => i \in selected

\* C37 (admin-only actions): an admin action that has been carried out
\* (restart, new portfolio item, service added, edited or deleted) was
\* triggered by the user whose id is ADMIN_ID.
C37_AdminOnly ==
    last_admin.action # None => last_admin.user_id = ADMIN_ID

\* C38 (booking needs complete data): a row is added to the table only for
\* a user whose conversation data holds service_key, service_name,
\* appointment_date and appointment_time, and carries these values; a
\* confirm_booking that finds one of them missing adds nothing and goes on
\* to clear the conversation, which leaves the user without state and data.
C38_BookingNeedsCompleteData ==
    [][/\ Len(appointments') > Len(appointments) =>
            LET row == appointments'[Len(appointments')]
                data == fsm_data[row.user_id]
            IN  /\ Complete(data)
                /\ row.service_key = data.service_key
                /\ row.service_name = data.service_name
                /\ row.appointment_date = data.appointment_date
                /\ row.appointment_time = data.appointment_time
       /\ \A u \in Users :
            /\ (confirm_booking(u) /\ ~Complete(fsm_data[u]))
                  => (appointments' = appointments /\ bpc'[u] = "clear")
            /\ (bpc[u] = "clear" /\ bpc'[u] = "idle")
                  => (fsm_data'[u] = EmptyData /\ fsm_state'[u] = None)]_vars

\* A confirm_booking has found the data of its user incomplete (a time but
\* no date) and is about to clear the conversation; nothing was created.
C38_Witness ==
    \E u \in Users :
        /\ bpc[u] = "clear"
        /\ appointments = <<>>
        /\ "appointment_time" \in DOMAIN fsm_data[u]
        /\ "service_key" \in DOMAIN fsm_data[u]
        /\ "appointment_date" \notin DOMAIN fsm_data[u]

====
